---- MODULE Spec2Model ----
(***************************************************************************)
(* A model of src/main.rs: the Json value type, the From conversions into  *)
(* it and the json! builder macro.                                         *)
(*                                                                         *)
(* The macro works on token trees, so the model's inputs are token trees:  *)
(* identifiers, literals, punctuation and delimited groups.  A build either *)
(* yields a Json value or is rejected by the compiler (no macro arm        *)
(* matches, or the expansion does not parse or typecheck).                 *)
(*                                                                         *)
(* Text is a sequence of one-character strings.                            *)
(***************************************************************************)
EXTENDS Integers, Sequences, FiniteSets, TLC

VARIABLES env, pc, inp, arg, res, base, reord

vars == <<env, pc, inp, arg, res, base, reord>>

(***************************************************************************)
(* Bounds of the model.                                                    *)
(***************************************************************************)
\* the longest array literal that is built
MaxLen == 2
\* the most pairs an object literal is built with
MaxPairs == 2
\* the longest raw token sequence that is built
MaxToks == 4
\* the largest magnitude of the numbers Json::from is called on
MaxInt == 2

(***************************************************************************)
(* f64.  A finite value is a sign and a magnitude (the model draws whole   *)
(* magnitudes only), so that -0.0 and 0.0 are two values; NaN and the      *)
(* infinities are values of their own.                                     *)
(***************************************************************************)
NaN == [cls |-> "nan"]

Inf(neg) == [cls |-> "inf", neg |-> neg]

Fin(neg, mag) == [cls |-> "fin", neg |-> neg, mag |-> mag]

\* f64's ==: NaN equals nothing, not even itself; the two zeros are equal.
F64Eq(a, b) ==
  IF a.cls = "nan" \/ b.cls = "nan" THEN FALSE
  ELSE IF a.cls = "fin" /\ b.cls = "fin"
       THEN (a.mag = 0 /\ b.mag = 0) \/ (a.neg = b.neg /\ a.mag = b.mag)
  ELSE a.cls = "inf" /\ b.cls = "inf" /\ a.neg = b.neg

(***************************************************************************)
(* Native values: what a Rust expression handed to the macro evaluates to. *)
(***************************************************************************)
IntTypes == {"u8", "i8", "u16", "i16", "u32", "i32", "u64", "i64",
             "u128", "i128", "usize", "isize"}

FloatTypes == {"f32", "f64"}

NBool(b) == [ty |-> "bool", b |-> b]

\* a borrowed &str
NStr(s) == [ty |-> "str", s |-> s]

\* an owned String
NString(s) == [ty |-> "String", s |-> s]

NInt(t, i) == [ty |-> t, i |-> i]

NFloat(t, f) == [ty |-> t, f |-> f]

\* types with no From impl for Json and no Display
NUnit == [ty |-> "unit"]

NArray == [ty |-> "array"]

\* an expression the compiler rejects, or an unbound name
NError == [ty |-> "error"]

Unbound == [ty |-> "unbound"]

(***************************************************************************)
(* Json values.                                                            *)
(***************************************************************************)
Null == [tag |-> "Null"]

Boolean(b) == [tag |-> "Boolean", b |-> b]

Number(f) == [tag |-> "Number", f |-> f]

String(s) == [tag |-> "String", s |-> s]

Array(items) == [tag |-> "Array", items |-> items]

\* the HashMap is a function from its key set to the values
Object(map) == [tag |-> "Object", map |-> map]

\* the result of a build: a value, or the compiler's rejection
Ok(v) == [ok |-> TRUE, val |-> v]

Err == [ok |-> FALSE]

\* a cast that goes through an unsigned type and loses the sign
AsF64_NoSign(n) == IF n.ty \in IntTypes THEN Fin(FALSE, IF n.i < 0 THEN -n.i ELSE n.i) ELSE n.f

\* n as f64: exact for a float, and for an integer while |n| <= 2^53, which
\* every integer of the model is
AsF64(n) == IF n.ty \in IntTypes THEN Fin(n.i < 0, IF n.i < 0 THEN -n.i ELSE n.i) ELSE n.f

Coercible(n) == n.ty \in {"bool", "str", "String"} \cup IntTypes \cup FloatTypes

\* Json::from on a value of a type that has the impl
From(n) ==
  IF n.ty = "bool" THEN Boolean(n.b)
  ELSE IF n.ty \in {"str", "String"} THEN String(n.s)
  ELSE Number(AsF64(n))

\* derived PartialEq; a HashMap equals another of the same length whose every
\* key the other maps to an equal value
RECURSIVE JsonEq(_, _)
\* an equality that takes two arrays with the same elements in any order as equal
JsonEq_ArrayUnordered(a, b) ==
  /\ a.tag = b.tag
  /\ CASE a.tag = "Null" -> TRUE
       [] a.tag = "Boolean" -> a.b = b.b
       [] a.tag = "Number" -> F64Eq(a.f, b.f)
       [] a.tag = "String" -> a.s = b.s
       [] a.tag = "Array" ->
            /\ Len(a.items) = Len(b.items)
            /\ \A i \in 1..Len(a.items) : \E j \in 1..Len(b.items) : JsonEq(a.items[i], b.items[j])
            /\ \A j \in 1..Len(b.items) : \E i \in 1..Len(a.items) : JsonEq(a.items[i], b.items[j])
       [] a.tag = "Object" ->
            /\ Cardinality(DOMAIN a.map) = Cardinality(DOMAIN b.map)
            /\ \A k \in DOMAIN a.map : k \in DOMAIN b.map /\ JsonEq(a.map[k], b.map[k])

\* an equality of maps that does not compare their lengths
JsonEq_KeysOnly(a, b) ==
  /\ a.tag = b.tag
  /\ CASE a.tag = "Null" -> TRUE
       [] a.tag = "Boolean" -> a.b = b.b
       [] a.tag = "Number" -> F64Eq(a.f, b.f)
       [] a.tag = "String" -> a.s = b.s
       [] a.tag = "Array" ->
            /\ Len(a.items) = Len(b.items)
            /\ \A i \in 1..Len(a.items) : JsonEq(a.items[i], b.items[i])
       [] a.tag = "Object" ->
            \A k \in DOMAIN a.map : k \in DOMAIN b.map /\ JsonEq(a.map[k], b.map[k])

JsonEq(a, b) ==
  /\ a.tag = b.tag
  /\ CASE a.tag = "Null" -> TRUE
       [] a.tag = "Boolean" -> a.b = b.b
       [] a.tag = "Number" -> F64Eq(a.f, b.f)
       [] a.tag = "String" -> a.s = b.s
       [] a.tag = "Array" ->
            /\ Len(a.items) = Len(b.items)
            /\ \A i \in 1..Len(a.items) : JsonEq(a.items[i], b.items[i])
       [] a.tag = "Object" ->
            /\ Cardinality(DOMAIN a.map) = Cardinality(DOMAIN b.map)
            /\ \A k \in DOMAIN a.map : k \in DOMAIN b.map /\ JsonEq(a.map[k], b.map[k])

(***************************************************************************)
(* Token trees.                                                            *)
(***************************************************************************)
Ident(name) == [k |-> "ident", name |-> name]

Lit(n) == [k |-> "lit", lit |-> n]

Punct(c) == [k |-> "punct", c |-> c]

Group(d, tts) == [k |-> "group", d |-> d, tts |-> tts]

Comma == Punct(",")

Colon == Punct(":")

IsGroup(tt, d) == tt.k = "group" /\ tt.d = d

(***************************************************************************)
(* to_string: Display of a native value.                                   *)
(***************************************************************************)
DigitChar == <<"0", "1", "2", "3", "4", "5", "6", "7", "8", "9">>

RECURSIVE Digits(_)
Digits(n) == IF n < 10 THEN <<DigitChar[n + 1]>> ELSE Digits(n \div 10) \o <<DigitChar[(n % 10) + 1]>>

HasDisplay(n) == Coercible(n)

to_string(n) ==
  IF n.ty = "bool" THEN (IF n.b THEN <<"t", "r", "u", "e">> ELSE <<"f", "a", "l", "s", "e">>)
  ELSE IF n.ty \in {"str", "String"} THEN n.s
  ELSE IF n.ty \in IntTypes THEN (IF n.i < 0 THEN <<"-">> \o Digits(-n.i) ELSE Digits(n.i))
  ELSE IF n.f.cls = "nan" THEN <<"N", "a", "N">>
  ELSE IF n.f.cls = "inf" THEN (IF n.f.neg THEN <<"-">> ELSE <<>>) \o <<"i", "n", "f">>
  ELSE (IF n.f.neg THEN <<"-">> ELSE <<>>) \o Digits(n.f.mag)

(***************************************************************************)
(* The value of a token tree used as a Rust expression, under the          *)
(* variables in scope.  Of the token sequences the model's tokens make,    *)
(* the expressions are: a literal, a bound name, a parenthesised           *)
(* expression, (), an array expression, and a block of unit-typed blocks   *)
(* followed by a tail expression.                                          *)
(***************************************************************************)
RECURSIVE ExprTT(_, _)
RECURSIVE BlockExpr(_, _)
BlockExpr(tts, e) ==
  IF Len(tts) = 0 THEN NUnit
  ELSE IF Len(tts) = 1 THEN ExprTT(tts[1], e)
  ELSE IF IsGroup(tts[1], "brace") /\ BlockExpr(tts[1].tts, e).ty = "unit"
       THEN BlockExpr(Tail(tts), e)
  ELSE NError

ParenExpr(tts, e) ==
  IF Len(tts) = 0 THEN NUnit
  ELSE IF Len(tts) = 1 THEN ExprTT(tts[1], e)
  ELSE NError

ExprTT(tt, e) ==
  CASE tt.k = "lit" -> tt.lit
    [] tt.k = "ident" -> IF e[tt.name].ty = "unbound" THEN NError ELSE e[tt.name]
    [] tt.k = "punct" -> NError
    [] tt.k = "group" ->
         IF tt.d = "paren" THEN ParenExpr(tt.tts, e)
         ELSE IF tt.d = "brace" THEN BlockExpr(tt.tts, e)
         ELSE NArray

\* $key.to_string()
KeyText(tt, e) ==
  LET n == ExprTT(tt, e) IN IF HasDisplay(n) THEN [ok |-> TRUE, s |-> to_string(n)] ELSE [ok |-> FALSE]

(***************************************************************************)
(* The json! macro.  Its input is the token trees of the invocation; the   *)
(* arms are tried in the order they are written.                           *)
(***************************************************************************)
IsPunct(tt, c) == tt.k = "punct" /\ tt.c = c

\* ( null )
MatchNull(input) == Len(input) = 1 /\ input[1].k = "ident" /\ input[1].name = "null"

\* $( $element:tt ), *  : token trees separated by commas, no trailing comma
IsElementList(tts) ==
  \/ Len(tts) = 0
  \/ /\ Len(tts) % 2 = 1
     /\ \A i \in 1..Len(tts) : i % 2 = 0 => IsPunct(tts[i], ",")

\* $( $key:tt : $value:tt ), +  : at least one pair
IsPairList_NonEmpty(tts) ==
  /\ Len(tts) % 4 = 3
  /\ \A i \in 1..Len(tts) :
       /\ i % 4 = 2 => IsPunct(tts[i], ":")
       /\ i % 4 = 0 => IsPunct(tts[i], ",")

\* $( $key:tt : $value:tt ), *
IsPairList(tts) ==
  \/ Len(tts) = 0
  \/ /\ Len(tts) % 4 = 3
     /\ \A i \in 1..Len(tts) :
          /\ i % 4 = 2 => IsPunct(tts[i], ":")
          /\ i % 4 = 0 => IsPunct(tts[i], ",")

\* ([ $( $element:tt ), * ])
MatchArray(input) ==
  Len(input) = 1 /\ IsGroup(input[1], "bracket") /\ IsElementList(input[1].tts)

\* ( { $( $key:tt : $value:tt ), * } )
MatchObject(input) ==
  Len(input) = 1 /\ IsGroup(input[1], "brace") /\ IsPairList(input[1].tts)

\* ( $other:tt )
MatchOther(input) == Len(input) = 1

EmptyMap == <<>>

\* an insert that keeps the value a key already has
Insert_KeepExisting(m, key, val) ==
  IF key \in DOMAIN m THEN m ELSE [x \in (DOMAIN m) \cup {key} |-> IF x = key THEN val ELSE m[x]]

\* HashMap::insert
Insert(m, key, val) == [x \in (DOMAIN m) \cup {key} |-> IF x = key THEN val ELSE m[x]]

\* .into_iter().collect() into the HashMap: the pairs are inserted in order
RECURSIVE Collect(_)
Collect(pairs) ==
  IF Len(pairs) = 0 THEN EmptyMap
  ELSE LET n == Len(pairs)
       IN Insert(Collect(SubSeq(pairs, 1, n - 1)), pairs[n].key, pairs[n].val)

RECURSIVE json(_, _)
\* the array arm with the elements in reverse order
ArrayArm_Reversed(tts, e) ==
  LET n == (Len(tts) + 1) \div 2
      built == [i \in 1..n |-> json(<<tts[2 * (n - i) + 1]>>, e)]
  IN IF \A i \in 1..n : built[i].ok
     THEN Ok(Array([i \in 1..n |-> built[i].val]))
     ELSE Err

\* Json::Array(vec! [ $( json!($element) ), * ])
ArrayArm(tts, e) ==
  LET n == (Len(tts) + 1) \div 2
      built == [i \in 1..n |-> json(<<tts[2 * i - 1]>>, e)]
  IN IF \A i \in 1..n : built[i].ok
     THEN Ok(Array([i \in 1..n |-> built[i].val]))
     ELSE Err

\* the object arm building each value from the key's token tree
ObjectArm_ValueFromKey(tts, e) ==
  LET n == (Len(tts) + 1) \div 4
      keys == [i \in 1..n |-> KeyText(tts[4 * i - 3], e)]
      built == [i \in 1..n |-> json(<<tts[4 * i - 3]>>, e)]
  IN IF \A i \in 1..n : keys[i].ok /\ built[i].ok
     THEN Ok(Object(Collect([i \in 1..n |-> [key |-> keys[i].s, val |-> built[i].val]])))
     ELSE Err

\* Json::Object(Box::new(vec! [ $( ($key.to_string(), json!($value)) ), * ]
\*   .into_iter().collect()))
ObjectArm(tts, e) ==
  LET n == (Len(tts) + 1) \div 4
      keys == [i \in 1..n |-> KeyText(tts[4 * i - 3], e)]
      built == [i \in 1..n |-> json(<<tts[4 * i - 1]>>, e)]
  IN IF \A i \in 1..n : keys[i].ok /\ built[i].ok
     THEN Ok(Object(Collect([i \in 1..n |-> [key |-> keys[i].s, val |-> built[i].val]])))
     ELSE Err

\* Json::from( $other )
OtherArm(tt, e) ==
  LET n == ExprTT(tt, e) IN IF Coercible(n) THEN Ok(From(n)) ELSE Err

\* the macro with the scalar arm written before the null arm
json_ScalarFirst(input, e) ==
  IF MatchArray(input) THEN ArrayArm(input[1].tts, e)
  ELSE IF MatchObject(input) THEN ObjectArm(input[1].tts, e)
  ELSE IF MatchOther(input) THEN OtherArm(input[1], e)
  ELSE IF MatchNull(input) THEN Ok(Null)
  ELSE Err

json(input, e) ==
  IF MatchNull(input) THEN Ok(Null)
  ELSE IF MatchArray(input) THEN ArrayArm(input[1].tts, e)
  ELSE IF MatchObject(input) THEN ObjectArm(input[1].tts, e)
  ELSE IF MatchOther(input) THEN OtherArm(input[1], e)
  ELSE Err

(***************************************************************************)
(* The inputs the model builds.                                            *)
(***************************************************************************)
\* an integer literal without a suffix is an i32, a float literal an f64
LitInt(i) == Lit(NInt("i32", i))

LitFloat(mag) == Lit(NFloat("f64", Fin(FALSE, mag)))

LitStr(s) == Lit(NStr(s))

LitBool(b) == Lit(NBool(b))

SeqsUpTo(S, n) == UNION {[1..m -> S] : m \in 0..n}

\* e1 , e2 , ... , en
CommaList(es) ==
  [i \in 1..(IF Len(es) = 0 THEN 0 ELSE 2 * Len(es) - 1) |->
     IF i % 2 = 1 THEN es[(i + 1) \div 2] ELSE Comma]

\* k1 : v1 , ... , kn : vn   (each pair is <<k, v>>)
PairList(ps) ==
  [i \in 1..(IF Len(ps) = 0 THEN 0 ELSE 4 * Len(ps) - 1) |->
     CASE i % 4 = 1 -> ps[(i + 3) \div 4][1]
       [] i % 4 = 2 -> Colon
       [] i % 4 = 3 -> ps[(i + 3) \div 4][2]
       [] OTHER -> Comma]

ArrayLit(es) == Group("bracket", CommaList(es))

ObjectLit(ps) == Group("brace", PairList(ps))

IdentNames == {"null", "width"}

Leaves ==
  {Ident("null"), Ident("width"), LitBool(TRUE), LitInt(1), LitFloat(1), LitStr(<<"a">>)}

\* { "b" : 1, "a" : width }  and  [ 1, "a" ]
NestedObject == ObjectLit(<<<<LitStr(<<"b">>), LitInt(1)>>, <<LitStr(<<"a">>), Ident("width")>>>>)

NestedArray == ArrayLit(<<LitInt(1), LitStr(<<"a">>)>>)

ElementTTs ==
  {Ident("null"), Ident("width"), LitInt(1), LitFloat(1), LitStr(<<"a">>), NestedObject, NestedArray}

KeyTTs == {LitStr(<<"a">>), LitInt(1), LitFloat(1)}

ValueTTs == {LitInt(1), Ident("null"), NestedObject}

\* every token sequence of up to MaxToks tokens, bare and in each delimiter
TokenAlphabet == {LitInt(1), Comma, Colon}

TokenSeqs == SeqsUpTo(TokenAlphabet, MaxToks)

\* a leaf in parentheses or in a block, and a block that starts with empty blocks
Wrapped ==
  {<<Group(d, <<l>>)>> : d \in {"paren", "brace"}, l \in Leaves}
    \cup {<<Group("brace", <<Group("brace", <<>>), l>>)>> : l \in Leaves}
    \cup {<<Group("brace", <<Group("brace", <<>>)>>)>>}

Inputs ==
  {<<l>> : l \in Leaves}
    \cup Wrapped
    \cup {<<ArrayLit(es)>> : es \in SeqsUpTo(ElementTTs, MaxLen)}
    \cup {<<ObjectLit(ps)>> : ps \in SeqsUpTo(KeyTTs \X ValueTTs, MaxPairs)}
    \cup TokenSeqs
    \cup {<<Group(d, ts)>> : d \in {"bracket", "brace", "paren"}, ts \in TokenSeqs}

\* the values Json::from is called on directly
IntValues(t) == IF t \in {"i8", "i16", "i32", "i64", "i128", "isize"} THEN (-MaxInt)..MaxInt ELSE 0..MaxInt

F64Values == {NaN, Inf(FALSE), Inf(TRUE)} \cup {Fin(neg, mag) : neg \in BOOLEAN, mag \in 0..MaxInt}

Texts == {<<>>, <<"a">>, <<"a", "b">>}

Natives ==
  {NBool(b) : b \in BOOLEAN}
    \cup {NStr(s) : s \in Texts} \cup {NString(s) : s \in Texts}
    \cup UNION {{NInt(t, i) : i \in IntValues(t)} : t \in IntTypes}
    \cup {NFloat(t, f) : t \in FloatTypes, f \in F64Values}

\* the let bindings the model makes: let width = 100 (main), a NaN, and a
\* variable named null
Bindings ==
  {<<"width", NInt("i32", 100)>>, <<"width", NFloat("f64", NaN)>>, <<"null", NInt("i32", 7)>>}

NoArg == [ty |-> "none"]

NoInput == <<>>

NoBase == [inp |-> NoInput, res |-> Err]

\* no pairs or elements have been exchanged since the build
NotReordered == [kind |-> "none", path |-> <<>>]

(***************************************************************************)
(* The state machine: a program that binds variables, builds values with   *)
(* json!, calls Json::from, and rebuilds a literal with two of its pairs   *)
(* or elements exchanged.                                                  *)
(***************************************************************************)
Init ==
  /\ env = [n \in IdentNames |-> Unbound]
  /\ pc = "idle"
  /\ inp = NoInput
  /\ arg = NoArg
  /\ res = Err
  /\ base = NoBase
  /\ reord = NotReordered

\* let name = value;
Let(name, n) ==
  /\ pc = "idle"
  /\ env' = [env EXCEPT ![name] = n]
  /\ UNCHANGED <<pc, inp, arg, res, base, reord>>

\* json!( input )
Build(input) ==
  /\ pc = "idle"
  /\ pc' = "built"
  /\ inp' = input
  /\ res' = json(input, env)
  /\ base' = [inp |-> input, res |-> res']
  /\ reord' = NotReordered
  /\ UNCHANGED <<env, arg>>

\* Json::from( n )
Coerce(n) ==
  /\ pc = "idle"
  /\ pc' = "coerced"
  /\ arg' = n
  /\ res' = Ok(From(n))
  /\ UNCHANGED <<env, inp, base, reord>>

\* the group the path leads to: the input's own group, or its j-th token tree
GroupAt(input, path) == IF Len(path) = 0 THEN input[1] ELSE input[1].tts[path[1]]

PutGroupAt(input, path, g) ==
  IF Len(path) = 0 THEN <<g>>
  ELSE <<[input[1] EXCEPT !.tts = [@ EXCEPT ![path[1]] = g]]>>

Paths(input) ==
  IF Len(input) = 1 /\ input[1].k = "group"
  THEN {<<>>} \cup {<<j>> : j \in {j \in 1..Len(input[1].tts) : input[1].tts[j].k = "group"}}
  ELSE {}

\* the token trees with the i-th and the (i+1)-th item exchanged, the
\* separators staying in place (an item and its comma are `step` tokens: 2
\* for an element, 4 for a pair)
SwapBlocks(tts, i, step) ==
  LET a == step * (i - 1) + 1
      b == step * i + 1
  IN [x \in 1..Len(tts) |->
        IF x >= a /\ x < a + step - 1 THEN tts[x + step]
        ELSE IF x >= b /\ x < b + step - 1 THEN tts[x - step]
        ELSE tts[x]]

\* the same literal with two neighbouring pairs of one of its objects exchanged
SwapPairs(path, i) ==
  /\ pc = "built"
  /\ reord.kind = "none" \/ (reord.kind = "pairs" /\ reord.path = path)
  /\ path \in Paths(inp)
  /\ LET g == GroupAt(inp, path)
     IN /\ IsGroup(g, "brace") /\ IsPairList(g.tts)
        /\ 4 * (i + 1) - 1 <= Len(g.tts)
        /\ inp' = PutGroupAt(inp, path, [g EXCEPT !.tts = SwapBlocks(g.tts, i, 4)])
  /\ res' = json(inp', env)
  /\ reord' = [kind |-> "pairs", path |-> path]
  /\ UNCHANGED <<env, pc, arg, base>>

\* the same literal with two neighbouring elements of one of its arrays exchanged
SwapElements(path, i) ==
  /\ pc = "built"
  /\ reord.kind = "none" \/ (reord.kind = "elements" /\ reord.path = path)
  /\ path \in Paths(inp)
  /\ LET g == GroupAt(inp, path)
     IN /\ IsGroup(g, "bracket") /\ IsElementList(g.tts)
        /\ 2 * (i + 1) - 1 <= Len(g.tts)
        /\ inp' = PutGroupAt(inp, path, [g EXCEPT !.tts = SwapBlocks(g.tts, i, 2)])
  /\ res' = json(inp', env)
  /\ reord' = [kind |-> "elements", path |-> path]
  /\ UNCHANGED <<env, pc, arg, base>>

\* the value is dropped; the variables stay in scope
Reset ==
  /\ pc \in {"built", "coerced"}
  /\ pc' = "idle"
  /\ inp' = NoInput
  /\ arg' = NoArg
  /\ res' = Err
  /\ base' = NoBase
  /\ reord' = NotReordered
  /\ UNCHANGED env

MaxSwapIndex == IF MaxLen > MaxPairs THEN MaxLen ELSE MaxPairs

Next ==
  \/ pc = "idle" /\ \E b \in Bindings : Let(b[1], b[2])
  \/ pc = "idle" /\ \E input \in Inputs : Build(input)
  \/ pc = "idle" /\ \E n \in Natives : Coerce(n)
  \/ pc = "built" /\ \E path \in Paths(inp), i \in 1..MaxSwapIndex : SwapPairs(path, i)
  \/ pc = "built" /\ \E path \in Paths(inp), i \in 1..MaxSwapIndex : SwapElements(path, i)
  \/ Reset

Spec == Init /\ [][Next]_vars

(***************************************************************************)
(* Vocabulary of the properties.                                           *)
(***************************************************************************)
Built == pc = "built"

Coerced == pc = "coerced"

\* the tokens inside the literal that was built
Body == inp[1].tts

ElementCount == (Len(Body) + 1) \div 2

ElementAt(i) == Body[2 * i - 1]

PairCount == (Len(Body) + 1) \div 4

KeyAt(i) == Body[4 * i - 3]

ValueAt(i) == Body[4 * i - 1]

TextOfKey(i) == KeyText(KeyAt(i), env).s

\* the token tree builds on its own, and what it builds to
Buildable(tt) == json(<<tt>>, env).ok

BuiltOf(tt) == json(<<tt>>, env).val

\* the last pair that has the key text
LastPairWith(text) ==
  CHOOSE i \in 1..PairCount :
    TextOfKey(i) = text /\ \A j \in (i + 1)..PairCount : TextOfKey(j) # text

RECURSIVE NaNFree(_)
NaNFree(v) ==
  CASE v.tag = "Number" -> v.f.cls # "nan"
    [] v.tag = "Array" -> \A i \in 1..Len(v.items) : NaNFree(v.items[i])
    [] v.tag = "Object" -> \A k \in DOMAIN v.map : NaNFree(v.map[k])
    [] OTHER -> TRUE

(***************************************************************************)
(* C1                                                                      *)
(***************************************************************************)
\* an object literal of one pair whose key has a text and whose value builds
SinglePairObject ==
  /\ Built /\ MatchObject(inp) /\ PairCount = 1
  /\ KeyText(KeyAt(1), env).ok /\ Buildable(ValueAt(1))

\* C1 as stated: an object literal with one pair key : value builds to an
\* Object of size 1 in which the key's text maps to a value that is == to the
\* value built from `value` on its own.
C1_SinglePairEqual ==
  SinglePairObject =>
    /\ res.ok /\ res.val.tag = "Object"
    /\ Cardinality(DOMAIN res.val.map) = 1
    /\ TextOfKey(1) \in DOMAIN res.val.map
    /\ JsonEq(res.val.map[TextOfKey(1)], BuiltOf(ValueAt(1)))

\* C1 amended: an object literal with one pair key : value builds to an Object
\* of size 1 in which the key's text maps to exactly the value built from
\* `value` on its own (same variant, same payload); the two are == exactly
\* when that value holds no NaN.
C1_SinglePair ==
  SinglePairObject =>
    /\ res.ok /\ res.val.tag = "Object"
    /\ Cardinality(DOMAIN res.val.map) = 1
    /\ TextOfKey(1) \in DOMAIN res.val.map
    /\ res.val.map[TextOfKey(1)] = BuiltOf(ValueAt(1))
    /\ JsonEq(res.val.map[TextOfKey(1)], BuiltOf(ValueAt(1))) <=> NaNFree(BuiltOf(ValueAt(1)))

\* a one-pair object whose value is itself an object has been built
C1_Witness ==
  /\ SinglePairObject /\ res.ok
  /\ res.val.map[TextOfKey(1)].tag = "Object"

(***************************************************************************)
(* C2                                                                      *)
(***************************************************************************)
\* an object literal whose keys all have a text and whose values all build
BuildableObject ==
  /\ Built /\ MatchObject(inp)
  /\ \A i \in 1..PairCount : KeyText(KeyAt(i), env).ok /\ Buildable(ValueAt(i))

\* C2: an object literal builds without error to an Object whose keys are the
\* texts of the listed keys, each mapped to the value built from its last
\* occurrence; with one key text in two pairs the Object has size 1 and holds
\* the later value.
C2_LastWriteWins ==
  BuildableObject =>
    /\ res.ok /\ res.val.tag = "Object"
    /\ DOMAIN res.val.map = {TextOfKey(i) : i \in 1..PairCount}
    /\ \A text \in DOMAIN res.val.map :
         res.val.map[text] = BuiltOf(ValueAt(LastPairWith(text)))
    /\ (PairCount = 2 /\ TextOfKey(1) = TextOfKey(2)) =>
         /\ Cardinality(DOMAIN res.val.map) = 1
         /\ res.val.map[TextOfKey(1)] = BuiltOf(ValueAt(2))

\* two pairs with the same key text and different values have been built
C2_Witness ==
  /\ BuildableObject /\ PairCount = 2
  /\ TextOfKey(1) = TextOfKey(2)
  /\ BuiltOf(ValueAt(1)) # BuiltOf(ValueAt(2))
  /\ res.ok

(***************************************************************************)
(* C3                                                                      *)
(***************************************************************************)
\* an array literal of at least one element, each of which builds
BuildableArray ==
  /\ Built /\ MatchArray(inp) /\ ElementCount >= 1
  /\ \A i \in 1..ElementCount : Buildable(ElementAt(i))

\* C3 as stated: an array literal of n >= 1 elements builds to an Array of
\* length n whose i-th element is == to the value built from the i-th
\* sub-expression on its own.
C3_ElementsEqual ==
  BuildableArray =>
    /\ res.ok /\ res.val.tag = "Array"
    /\ Len(res.val.items) = ElementCount
    /\ \A i \in 1..ElementCount : JsonEq(res.val.items[i], BuiltOf(ElementAt(i)))

\* C3 amended: an array literal of n >= 1 elements builds to an Array of
\* length n whose i-th element is exactly the value built from the i-th
\* sub-expression on its own; the two are == exactly when that value holds
\* no NaN.
C3_ElementsInOrder ==
  BuildableArray =>
    /\ res.ok /\ res.val.tag = "Array"
    /\ Len(res.val.items) = ElementCount
    /\ \A i \in 1..ElementCount :
         /\ res.val.items[i] = BuiltOf(ElementAt(i))
         /\ JsonEq(res.val.items[i], BuiltOf(ElementAt(i))) <=> NaNFree(BuiltOf(ElementAt(i)))

\* an array of two elements that build to different values has been built
C3_Witness ==
  /\ BuildableArray /\ ElementCount = 2 /\ res.ok
  /\ res.val.items[1] # res.val.items[2]

(***************************************************************************)
(* C4                                                                      *)
(***************************************************************************)
EmptyLiteral(d) == Built /\ Len(inp) = 1 /\ IsGroup(inp[1], d) /\ Len(inp[1].tts) = 0

\* C4: [] builds to an Array of length 0 and {} builds to an Object of size 0.
C4_EmptyLiterals ==
  /\ EmptyLiteral("bracket") =>
       res.ok /\ res.val.tag = "Array" /\ Len(res.val.items) = 0
  /\ EmptyLiteral("brace") =>
       res.ok /\ res.val.tag = "Object" /\ Cardinality(DOMAIN res.val.map) = 0

\* {} has been built
C4_Witness == EmptyLiteral("brace") /\ res.ok

(***************************************************************************)
(* C5                                                                      *)
(***************************************************************************)
IsNullToken(tt) == tt.k = "ident" /\ tt.name = "null"

\* C5: the token null builds to Null whatever a variable named null holds, at
\* the top level, as an array element and as an object value.
C5_NullIsNull ==
  /\ (Built /\ MatchNull(inp)) => res = Ok(Null)
  /\ (Built /\ MatchArray(inp) /\ res.ok) =>
       \A i \in 1..ElementCount : IsNullToken(ElementAt(i)) => res.val.items[i] = Null
  /\ (Built /\ MatchObject(inp) /\ res.ok) =>
       \A i \in 1..PairCount :
         (IsNullToken(ValueAt(i)) /\ i = LastPairWith(TextOfKey(i))) =>
           res.val.map[TextOfKey(i)] = Null

\* null has been built while a variable named null holds a number
C5_Witness ==
  /\ Built /\ MatchNull(inp)
  /\ Coercible(env["null"])
  /\ res = Ok(Null)

(***************************************************************************)
(* C6                                                                      *)
(***************************************************************************)
\* Json::Boolean(b), Json::String(s), Json::Number(n as f64) written out
DirectVariant(n) ==
  IF n.ty = "bool" THEN [tag |-> "Boolean", b |-> n.b]
  ELSE IF n.ty \in {"str", "String"} THEN [tag |-> "String", s |-> n.s]
  ELSE IF n.ty \in IntTypes
       THEN [tag |-> "Number",
             f |-> [cls |-> "fin", neg |-> n.i < 0, mag |-> IF n.i < 0 THEN -n.i ELSE n.i]]
  ELSE [tag |-> "Number", f |-> n.f]

IsNaN(n) == n.ty \in FloatTypes /\ n.f.cls = "nan"

\* the number a finite numeric value denotes
Denoted(n) ==
  IF n.ty \in IntTypes THEN n.i ELSE IF n.f.neg THEN -n.f.mag ELSE n.f.mag

HasDenoted(n) == n.ty \in IntTypes \/ (n.ty \in FloatTypes /\ n.f.cls = "fin")

\* C6 as stated: Json::from(x) is == to the direct-variant construction of x,
\* for every boolean, text and number x.
C6_CoercionEqualsDirect ==
  Coerced => res.ok /\ JsonEq(res.val, DirectVariant(arg))

\* C6 amended: Json::from(x), called directly or through the builder's last
\* production, gives exactly the direct-variant construction of x (Boolean(b),
\* String of the same characters, Number(n as f64)); the two are == unless x
\* is a NaN; an integer and a float that denote the same number coerce to ==
\* values.
C6_CoercionRoundTrip ==
  /\ Coerced =>
       /\ res.ok /\ res.val = DirectVariant(arg)
       /\ JsonEq(res.val, DirectVariant(arg)) <=> ~IsNaN(arg)
       /\ \A m \in Natives :
            (HasDenoted(arg) /\ HasDenoted(m) /\ Denoted(arg) = Denoted(m)) =>
              JsonEq(res.val, From(m))
  /\ (Built /\ Len(inp) = 1 /\ inp[1].k = "lit") =>
       res.ok /\ res.val = DirectVariant(inp[1].lit)

\* a negative integer has been coerced (a float of the model denotes the same number)
C6_Witness ==
  /\ Coerced /\ arg.ty = "i64" /\ arg.i = -1
  /\ res.ok /\ JsonEq(res.val, From(NFloat("f32", Fin(TRUE, 1))))

(***************************************************************************)
(* C7                                                                      *)
(***************************************************************************)
ProbeInputs ==
  {<<LitInt(1)>>, <<Ident("width")>>,
   <<ArrayLit(<<LitInt(1), LitFloat(1)>>)>>, <<ArrayLit(<<NestedObject>>)>>,
   <<NestedObject>>,
   <<ObjectLit(<<<<LitStr(<<"a">>), LitInt(1)>>>>)>>,
   <<ObjectLit(<<<<LitStr(<<"a">>), LitInt(1)>>, <<LitInt(1), LitInt(1)>>>>)>>}

\* values to compare the state's value with: built under the variables in
\* scope, or coerced
Probes ==
  {json(p, env).val : p \in {q \in ProbeInputs : json(q, env).ok}}
    \cup {From(NFloat("f64", f)) : f \in {Fin(TRUE, 0), Fin(FALSE, 0), NaN}}

Symmetric(a, b) == JsonEq(a, b) <=> JsonEq(b, a)

\* a == b and b == c imply a == c, with a in each of the three places
TransitiveAmong(a, P) ==
  /\ \A b \in P : JsonEq(a, b) => \A c \in P : JsonEq(b, c) => JsonEq(a, c)
  /\ \A b \in P : JsonEq(b, a) => \A c \in P : JsonEq(a, c) => JsonEq(b, c)
  /\ \A c \in P : JsonEq(c, a) => \A b \in P : JsonEq(b, c) => JsonEq(b, a)

\* C7 as stated: == on Json values is reflexive, symmetric and transitive.
C7_Equivalence ==
  res.ok =>
    /\ JsonEq(res.val, res.val)
    /\ \A b \in Probes : Symmetric(res.val, b)
    /\ TransitiveAmong(res.val, Probes)

\* C7 amended: == on Json values is symmetric and transitive, and a value is
\* == to itself exactly when it holds no NaN.
C7_PartialEquivalence ==
  res.ok =>
    /\ JsonEq(res.val, res.val) <=> NaNFree(res.val)
    /\ \A b \in Probes : Symmetric(res.val, b) /\ (JsonEq(b, b) <=> NaNFree(b))
    /\ TransitiveAmong(res.val, Probes)

\* an object of two keys has been built that is == to one probe and not to
\* another object among them
C7_Witness ==
  /\ Built /\ res.ok /\ res.val.tag = "Object"
  /\ Cardinality(DOMAIN res.val.map) = 2
  /\ \E b, c \in Probes :
       JsonEq(res.val, b) /\ JsonEq(b, res.val) /\ c.tag = "Object" /\ ~JsonEq(c, res.val)

(***************************************************************************)
(* C8                                                                      *)
(***************************************************************************)
\* the group of the original literal whose pairs or elements were exchanged
Reordered == GroupAt(base.inp, reord.path)

DistinctKeyTexts(tts) ==
  \A i, j \in 1..((Len(tts) + 1) \div 4) :
    i # j => KeyText(tts[4 * i - 3], env).s # KeyText(tts[4 * j - 3], env).s

PairwiseUnequal(tts) ==
  \A i, j \in 1..((Len(tts) + 1) \div 2) :
    i # j => ~JsonEq(BuiltOf(tts[2 * i - 1]), BuiltOf(tts[2 * j - 1]))

\* the exchanged array is the literal itself or an element of it
ArrayInArray == reord.path = <<>> \/ IsGroup(base.inp[1], "bracket")

IsValueToken(tt) == tt.k # "punct"

TrailingComma(tts) == Len(tts) > 0 /\ IsPunct(tts[Len(tts)], ",")

MissingComma(tts) ==
  \E i \in 1..(Len(tts) - 1) : IsValueToken(tts[i]) /\ IsValueToken(tts[i + 1])

\* a pair without its colon and value: { "a" }
MissingColon(tts) == Len(tts) = 1 /\ IsValueToken(tts[1])

MalformedLiteral(input) ==
  /\ Len(input) = 1 /\ input[1].k = "group"
  /\ \/ /\ input[1].d = "bracket"
        /\ TrailingComma(input[1].tts) \/ MissingComma(input[1].tts)
     \/ /\ input[1].d = "brace"
        /\ \/ TrailingComma(input[1].tts)
           \/ MissingComma(input[1].tts)
           \/ MissingColon(input[1].tts)

\* C9: a malformed literal (a trailing or missing comma, a pair without its
\* colon and value) is rejected: building it yields no Json value.
C9_MalformedRejected ==
  (Built /\ MalformedLiteral(inp)) => ~res.ok

(***************************************************************************)
(* C10                                                                     *)
(***************************************************************************)
\* C10: a bracketed or braced input never builds to a Boolean, a Number or a
\* String, and a one-element list [e] builds to an Array of length 1.
C10_GroupsNeverScalar ==
  (Built /\ Len(inp) = 1 /\ res.ok) =>
    /\ (IsGroup(inp[1], "bracket") \/ IsGroup(inp[1], "brace")) =>
         res.val.tag \notin {"Boolean", "Number", "String"}
    /\ (IsGroup(inp[1], "bracket") /\ Len(inp[1].tts) = 1) =>
         res.val.tag = "Array" /\ Len(res.val.items) = 1

====
